---- MODULE Spec2Model ----
(***************************************************************************)
(* StegoShade (stego_lib): LSB steganography over a set of PNG images.     *)
(* The model follows the Python sources: the header format, the bit-plane  *)
(* codec and segment scanner of ImageContainer, the hash and cipher        *)
(* wrappers, StegoDecoder.decode, StegoEncoder.encode and the package      *)
(* level entry points.                                                     *)
(***************************************************************************)
EXTENDS Integers, Sequences, FiniteSets, TLC

\* ------------------------------------------------------------------------
\* Bounds of the model
\* ------------------------------------------------------------------------
NumImages == 3
MaxWrites == 2
MaxEncodes == 2
MaxDamage == 1
NumThreads == 2

\* ------------------------------------------------------------------------
\* Program constants
\* ------------------------------------------------------------------------
SIZE == 32
MAGIC == <<83, 84, 69, 71>>
VERSION == 1
BLOCK == 16
DIGEST == 32

\* ------------------------------------------------------------------------
\* Python helpers: slices, min/max, bit operations on 8-bit samples
\* ------------------------------------------------------------------------
Min(a, b) == IF a <= b THEN a ELSE b

Max(a, b) == IF a >= b THEN a ELSE b

Pow2(n) == 2 ^ n

\* a sequence given by a function of its index, as a tuple
Tuple(f) == SubSeq(f, 1, Len(f))

\* index normalisation of a Python slice bound
PyIdx(i, n) == IF i < 0 THEN Max(0, n + i) ELSE Min(i, n)

\* s[a:b] with 0-based Python bounds (negative bounds count from the end)
PySlice(s, a, b) ==
    LET lo == PyIdx(a, Len(s))
        hi == PyIdx(b, Len(s))
    IN  IF hi <= lo THEN <<>> ELSE SubSeq(s, lo + 1, hi)

\* s[a:b] = x on a bytearray
PySliceAssign(s, a, b, x) ==
    LET lo == PyIdx(a, Len(s))
        hi == Max(lo, PyIdx(b, Len(s)))
    IN  PySlice(s, 0, lo) \o x \o PySlice(s, hi, Len(s))

\* bit j of v
BitOf(v, j) == (v \div Pow2(j)) % 2

\* v & m on 8-bit values
BitAnd8(v, m) ==
    LET b(j) == BitOf(v, j) * BitOf(m, j) * Pow2(j)
    IN  b(0) + b(1) + b(2) + b(3) + b(4) + b(5) + b(6) + b(7)

\* ------------------------------------------------------------------------
\* formats/header.py
\* ------------------------------------------------------------------------
\* struct.pack('>Q', v): the model's lengths stay below 2^31, so the four
\* high bytes are zero
Pack64(v) == Tuple([i \in 1..8 |-> IF i <= 4 THEN 0 ELSE (v \div (256 ^ (8 - i))) % 256])

\* struct.unpack('>Q', b)
Unpack64(b) ==
    IF b[1] = 0 /\ b[2] = 0 /\ b[3] = 0 /\ b[4] = 0 /\ b[5] < 128
    THEN b[5] * 16777216 + b[6] * 65536 + b[7] * 256 + b[8]
    ELSE 2147483647

ParseError == [error |-> "ValueError"]

StegoHeader_create(total_message_length, current_offset, message_hash, has_next_part) ==
    MAGIC \o <<VERSION>> \o Pack64(total_message_length) \o Pack64(current_offset)
          \o PySlice(message_hash, 0, 8)
          \o <<IF has_next_part THEN 1 ELSE 0>> \o <<0, 0>>

\* parse without the version check of lines 86-88
StegoHeader_parse_any_version(header_bytes) ==
    IF Len(header_bytes) # SIZE THEN ParseError
    ELSE IF PySlice(header_bytes, 0, 4) # MAGIC THEN ParseError
    ELSE [total_length   |-> Unpack64(PySlice(header_bytes, 5, 13)),
          current_offset |-> Unpack64(PySlice(header_bytes, 13, 21)),
          message_hash   |-> PySlice(header_bytes, 21, 29),
          has_next_part  |-> header_bytes[30] # 0]

StegoHeader_parse(header_bytes) ==
    IF Len(header_bytes) # SIZE THEN ParseError
    ELSE IF PySlice(header_bytes, 0, 4) # MAGIC THEN ParseError
    ELSE IF header_bytes[5] # VERSION THEN ParseError
    ELSE [total_length   |-> Unpack64(PySlice(header_bytes, 5, 13)),
          current_offset |-> Unpack64(PySlice(header_bytes, 13, 21)),
          message_hash   |-> PySlice(header_bytes, 21, 29),
          has_next_part  |-> header_bytes[30] # 0]

\* Python attribute lookup on the parsed dataclass
HasAttr(obj, name) == name \in DOMAIN obj

\* parse raised ValueError
IsParseError(header) == HasAttr(header, "error")

\* ------------------------------------------------------------------------
\* io/image_handler.py: ImageContainer
\* ------------------------------------------------------------------------
\* self.mask, self.inverse_mask of __init__
Mask(k) == Pow2(k) - 1

\* an inverse mask that clears one bit too many
InverseMask_wide(k) == BitAnd8(255, 255 - Mask(k + 1))

InverseMask(k) == BitAnd8(255, 255 - Mask(k))

\* the capacity without the header bytes taken off (line 52 left out)
calculate_capacity_raw(img, k) ==
    Max(0, (img.width * img.height * 3 * k) \div 8)

calculate_capacity(img, k) ==
    LET total_pixels == img.width * img.height
        available_bits == total_pixels * 3 * k
        available_bytes == (available_bits \div 8) - SIZE
    IN  Max(0, available_bytes)

\* extracted_bits[b] of extract_all_bits: bit (b mod k) of sample (b div k)
ExtractedBit(pixels, k, b) == BitOf(pixels[(b \div k) + 1], b % k)

extract_all_bits(pixels, k) ==
    Tuple([n \in 1..((Len(pixels) * k) \div 8) |->
        LET e(j) == ExtractedBit(pixels, k, 8 * (n - 1) + j) * Pow2(7 - j)
        IN  e(0) + e(1) + e(2) + e(3) + e(4) + e(5) + e(6) + e(7)])

\* a scan that goes on behind a stretch of SIZE bytes that is no header
RECURSIVE ScanSegments_by_header(_, _)
ScanSegments_by_header(raw_data, offset) ==
    IF offset + SIZE > Len(raw_data) THEN <<>>
    ELSE LET header == StegoHeader_parse(PySlice(raw_data, offset, offset + SIZE))
         IN  IF IsParseError(header)
             THEN ScanSegments_by_header(raw_data, offset + SIZE)
             ELSE LET segment_size == SIZE + Min(Len(raw_data) - offset - SIZE,
                                                 header.total_length - header.current_offset)
                  IN  IF segment_size = 0
                      THEN << <<offset, segment_size>> >>
                      ELSE << <<offset, segment_size>> >>
                               \o ScanSegments_by_header(raw_data, offset + segment_size)

\* the scan loop of find_used_segments, from a given offset.  A segment of
\* size 0 leaves the loop without progress: the recursion is cut there and
\* the offending entry is the last one of the list.  A segment of a size
\* below 0 moves the offset back and the loop goes on from there.
RECURSIVE ScanSegments(_, _)
ScanSegments(raw_data, offset) ==
    IF offset + SIZE > Len(raw_data) THEN <<>>
    ELSE LET header == StegoHeader_parse(PySlice(raw_data, offset, offset + SIZE))
         IN  IF IsParseError(header)
             THEN ScanSegments(raw_data, offset + 1)
             ELSE LET segment_size == SIZE + Min(Len(raw_data) - offset - SIZE,
                                                 header.total_length - header.current_offset)
                  IN  IF segment_size = 0
                      THEN << <<offset, segment_size>> >>
                      ELSE << <<offset, segment_size>> >>
                               \o ScanSegments(raw_data, offset + segment_size)

\* every iteration that recorded a segment moved the offset forward
Advances(used_segments) ==
    \A n \in DOMAIN used_segments : used_segments[n][2] > 0

\* the while loop of find_used_segments came to its end: no iteration left
\* the offset where it was
Returns(used_segments) ==
    \A n \in DOMAIN used_segments : used_segments[n][2] # 0

find_used_segments(pixels, k) ==
    LET raw_data == extract_all_bits(pixels, k)
    IN  IF Len(raw_data) < SIZE THEN <<>> ELSE ScanSegments(raw_data, 0)

\* the scan loop of read_all_messages
RECURSIVE ReadMessages(_, _)
ReadMessages(raw_data, offset) ==
    IF offset + SIZE > Len(raw_data) THEN <<>>
    ELSE LET header == StegoHeader_parse(PySlice(raw_data, offset, offset + SIZE))
         IN  IF IsParseError(header)
             THEN ReadMessages(raw_data, offset + 1)
             ELSE LET message_part_size == Min(Len(raw_data) - offset - SIZE,
                                               header.total_length - header.current_offset)
                      message_data == PySlice(raw_data, offset, offset + SIZE + message_part_size)
                  IN  IF SIZE + message_part_size = 0
                      THEN <<message_data>>
                      ELSE <<message_data>>
                               \o ReadMessages(raw_data, offset + SIZE + message_part_size)

read_all_messages(pixels, k) ==
    LET raw_data == extract_all_bits(pixels, k)
    IN  IF Len(raw_data) < SIZE THEN <<>> ELSE ReadMessages(raw_data, 0)

\* read_data: the same loop, then the first message or None
None == [found |-> FALSE, data |-> <<>>]

read_data(pixels, k) ==
    LET raw_data == extract_all_bits(pixels, k)
        messages == IF Len(raw_data) < SIZE THEN <<>> ELSE ReadMessages(raw_data, 0)
    IN  IF messages = <<>> THEN None ELSE [found |-> TRUE, data |-> messages[1]]

\* next_free_byte of write_data: the end of the last used segment
RECURSIVE NextFreeByte(_)
NextFreeByte(used_segments) ==
    IF used_segments = <<>> THEN 0
    ELSE Max(used_segments[1][1] + used_segments[1][2], NextFreeByte(Tail(used_segments)))

\* the bits of the data taken LSB first from every byte
DataBits_lsb_first(data, k) ==
    LET n == 8 * Len(data)
        padded == IF n % k # 0 THEN n + (k - (n % k)) ELSE n
    IN  Tuple([b \in 1..padded |->
            IF b <= n THEN BitOf(data[((b - 1) \div 8) + 1], (b - 1) % 8) ELSE 0])

\* bits of write_data: the data MSB first, zero padded to a multiple of k
DataBits(data, k) ==
    LET n == 8 * Len(data)
        padded == IF n % k # 0 THEN n + (k - (n % k)) ELSE n
    IN  Tuple([b \in 1..padded |->
            IF b <= n THEN BitOf(data[((b - 1) \div 8) + 1], 7 - ((b - 1) % 8)) ELSE 0])

\* a sample loop that starts with the sample that holds bit start_bit
EmbedBits_from_sample(pixels, k, bits, start_bit) ==
    LET first == start_bit \div k
        inverse_mask == InverseMask(k)
        nbits == Len(bits)
    IN  Tuple([i \in 1..Len(pixels) |->
            LET t == (i - 1) - first
            IN  IF t < 0 \/ t * k >= nbits THEN pixels[i]
                ELSE LET cleared == BitAnd8(pixels[i], inverse_mask)
                         w(j) == IF j < k THEN bits[t * k + j + 1] * Pow2(j) ELSE 0
                     IN  cleared + w(0) + w(1) + w(2) + w(3)])

\* the sample loop of write_data: the first sample whose bit index is not
\* before start_bit takes bits[0..k-1], the next one the following k bits, ...
EmbedBits(pixels, k, bits, start_bit) ==
    LET first == (start_bit + k - 1) \div k
        inverse_mask == InverseMask(k)
        nbits == Len(bits)
    IN  Tuple([i \in 1..Len(pixels) |->
            LET t == (i - 1) - first
            IN  IF (i - 1) * k < start_bit \/ t * k >= nbits THEN pixels[i]
                ELSE LET cleared == BitAnd8(pixels[i], inverse_mask)
                         w(j) == IF j < k THEN bits[t * k + j + 1] * Pow2(j) ELSE 0
                     IN  cleared + w(0) + w(1) + w(2) + w(3)])

\* write_data(input_path, output_path = input_path, data): the new samples,
\* or IOError when the data does not fit behind the used segments
write_data(pixels, k, data) ==
    LET used_segments == find_used_segments(pixels, k)
        next_free_byte == NextFreeByte(used_segments)
        max_bytes == (Len(pixels) * k) \div 8
    IN  IF next_free_byte + Len(data) > max_bytes
        THEN [status |-> "IOError", pixels |-> pixels]
        ELSE [status |-> "ok",
              pixels |-> EmbedBits(pixels, k, DataBits(data, k), next_free_byte * 8)]

\* an ImageContainer(k) over the files: what its reading methods return for
\* every path that can be opened, read_all_messages and find_used_segments
\* each from the raw bytes extract_all_bits gives them for the file
Container(imgs, k) ==
    Tuple([p \in 1..Len(imgs) |->
        LET raw_data == extract_all_bits(imgs[p].pixels, k)
        IN  [read_all_messages  |-> IF Len(raw_data) < SIZE THEN <<>>
                                    ELSE ReadMessages(raw_data, 0),
             find_used_segments |-> IF Len(raw_data) < SIZE THEN <<>>
                                    ELSE ScanSegments(raw_data, 0),
             calculate_capacity |-> calculate_capacity(imgs[p], k)]])

\* ------------------------------------------------------------------------
\* crypto/hash.py (hashlib.sha256 stands behind a small mixing function of
\* the same shape: a fixed-length digest of the whole message)
\* ------------------------------------------------------------------------
RECURSIVE Mix(_, _, _)
Mix(message, j, i) ==
    IF j > Len(message) THEN 17 * i + Len(message)
    ELSE ((message[j] + 1) * (j + i) + 31 * Mix(message, j + 1, i)) % 256

create_message_hash(message) == Tuple([i \in 1..DIGEST |-> Mix(message, 1, i) % 256])

verify_message_hash(message, expected_hash) ==
    PySlice(create_message_hash(message), 0, Len(expected_hash)) = expected_hash

\* ------------------------------------------------------------------------
\* crypto/cipher.py: MessageCipher (PBKDF2 key derivation and AES-CBC stand
\* behind a keyed byte substitution; the PKCS7 padding is exact)
\* ------------------------------------------------------------------------
NoPassword == "none"

\* _derive_key_iv
DeriveKey(password) == IF password = "a" THEN 37 ELSE IF password = "b" THEN 91 ELSE 150

Pkcs7Pad(plaintext) ==
    LET n == BLOCK - (Len(plaintext) % BLOCK)
    IN  plaintext \o Tuple([i \in 1..n |-> n])

encrypt(plaintext, password) ==
    LET padded_data == Pkcs7Pad(plaintext)
    IN  Tuple([i \in 1..Len(padded_data) |-> (padded_data[i] + DeriveKey(password) + i) % 256])

DecryptError == [ok |-> FALSE, data |-> <<>>]

\* decrypt: the plaintext, or DecryptError when the unpadder rejects the data
decrypt(ciphertext, password) ==
    LET padded_data == Tuple([i \in 1..Len(ciphertext) |->
                                  (ciphertext[i] + 512 - DeriveKey(password) - i) % 256])
        n == IF padded_data = <<>> THEN 0 ELSE padded_data[Len(padded_data)]
    IN  IF Len(padded_data) = 0 \/ Len(padded_data) % BLOCK # 0 THEN DecryptError
        ELSE IF n < 1 \/ n > BLOCK THEN DecryptError
        ELSE IF \E i \in 1..n : padded_data[Len(padded_data) - i + 1] # n THEN DecryptError
        ELSE [ok |-> TRUE, data |-> PySlice(padded_data, 0, Len(padded_data) - n)]

\* ------------------------------------------------------------------------
\* core/decoder.py: StegoDecoder.decode
\* ------------------------------------------------------------------------
\* a path that names no image: Image.open raises
NoFile == 0

\* a decoder that groups the segments by the hash of their header
ProcessSegment_by_hash(st, raw_data) ==
    IF Len(raw_data) < SIZE THEN st
    ELSE LET header == StegoHeader_parse(PySlice(raw_data, 0, SIZE))
         IN  IF IsParseError(header) THEN st
             ELSE IF ~HasAttr(header, "message_hash") THEN st
             ELSE IF header.message_hash \in st.completed THEN st
             ELSE LET known == header.message_hash \in DOMAIN st.messages
                      message_info ==
                          IF known THEN st.messages[header.message_hash]
                          ELSE [total_length |-> header.total_length,
                                message_hash |-> header.message_hash,
                                parts        |-> Tuple([i \in 1..header.total_length |-> 0]),
                                bytes_read   |-> 0]
                      order == IF known THEN st.order ELSE Append(st.order, header.message_hash)
                  IN  IF header.total_length # message_info.total_length
                      THEN st
                      ELSE LET part_length == Min(Len(raw_data) - SIZE,
                                                  header.total_length - header.current_offset)
                               message_part == PySlice(raw_data, SIZE, SIZE + part_length)
                               updated ==
                                   [message_info EXCEPT
                                       !.parts = PySliceAssign(@, header.current_offset,
                                                     header.current_offset + part_length,
                                                     message_part),
                                       !.bytes_read = @ + Len(message_part)]
                           IN  [messages  |-> [id \in DOMAIN st.messages \cup {header.message_hash} |->
                                                  IF id = header.message_hash THEN updated
                                                  ELSE st.messages[id]],
                                order     |-> order,
                                completed |-> IF updated.bytes_read >= updated.total_length
                                              THEN st.completed \cup {header.message_hash}
                                              ELSE st.completed]

\* lines 62-99, one segment of one image.  st.messages is the dict, st.order
\* its insertion order, st.completed the set completed_messages.
ProcessSegment(st, raw_data) ==
    IF Len(raw_data) < SIZE THEN st
    ELSE LET header == StegoHeader_parse(PySlice(raw_data, 0, SIZE))
         IN  IF IsParseError(header) THEN st
             ELSE IF ~HasAttr(header, "message_id") THEN st
             ELSE IF header.message_id \in st.completed THEN st
             ELSE LET known == header.message_id \in DOMAIN st.messages
                      message_info ==
                          IF known THEN st.messages[header.message_id]
                          ELSE [total_length |-> header.total_length,
                                message_hash |-> header.message_hash,
                                parts        |-> Tuple([i \in 1..header.total_length |-> 0]),
                                bytes_read   |-> 0]
                      order == IF known THEN st.order ELSE Append(st.order, header.message_id)
                  IN  IF header.total_length # message_info.total_length
                      THEN st
                      ELSE LET part_length == Min(Len(raw_data) - SIZE,
                                                  header.total_length - header.current_offset)
                               message_part == PySlice(raw_data, SIZE, SIZE + part_length)
                               updated ==
                                   [message_info EXCEPT
                                       !.parts = PySliceAssign(@, header.current_offset,
                                                     header.current_offset + part_length,
                                                     message_part),
                                       !.bytes_read = @ + Len(message_part)]
                           IN  [messages  |-> [id \in DOMAIN st.messages \cup {header.message_id} |->
                                                  IF id = header.message_id THEN updated
                                                  ELSE st.messages[id]],
                                order     |-> order,
                                completed |-> IF updated.bytes_read >= updated.total_length
                                              THEN st.completed \cup {header.message_id}
                                              ELSE st.completed]

RECURSIVE ProcessSegments(_, _)
ProcessSegments(st, raw_messages) ==
    IF raw_messages = <<>> THEN st
    ELSE ProcessSegments(ProcessSegment(st, Head(raw_messages)), Tail(raw_messages))

\* lines 48-104: the loop over image_paths; an image that cannot be opened
\* raises inside the try and is skipped
RECURSIVE ProcessImages(_, _, _)
ProcessImages(st, container, image_paths) ==
    IF image_paths = <<>> THEN st
    ELSE LET img_path == Head(image_paths)
             next == IF img_path \notin DOMAIN container THEN st
                     ELSE ProcessSegments(st, container[img_path].read_all_messages)
         IN  ProcessImages(next, container, Tail(image_paths))

\* lines 106-134: decrypt and verify the complete messages, in dict order
RECURSIVE Reconstruct(_, _, _)
Reconstruct(messages, order, password) ==
    IF order = <<>> THEN <<>>
    ELSE LET message_info == messages[Head(order)]
             rest == Reconstruct(messages, Tail(order), password)
         IN  IF message_info.bytes_read # message_info.total_length THEN rest
             ELSE LET encrypted_message == message_info.parts
                      decrypted == IF password # NoPassword
                                   THEN decrypt(encrypted_message, password)
                                   ELSE [ok |-> TRUE, data |-> encrypted_message]
                  IN  IF ~decrypted.ok THEN rest
                      ELSE IF verify_message_hash(decrypted.data, message_info.message_hash)
                           THEN <<decrypted.data>> \o rest
                           ELSE rest

\* a decoder that hands back the payload of every segment it reads, without
\* reassembly, decryption check or hash verification
RECURSIVE Payloads(_)
Payloads(raw_messages) ==
    IF raw_messages = <<>> THEN <<>>
    ELSE <<PySlice(Head(raw_messages), SIZE, Len(Head(raw_messages)))>>
             \o Payloads(Tail(raw_messages))

RECURSIVE PayloadsOf(_, _)
PayloadsOf(container, image_paths) ==
    IF image_paths = <<>> THEN <<>>
    ELSE (IF Head(image_paths) \notin DOMAIN container THEN <<>>
          ELSE Payloads(container[Head(image_paths)].read_all_messages))
         \o PayloadsOf(container, Tail(image_paths))

decode_unverified(container, image_paths, password) ==
    PayloadsOf(container, image_paths)

\* decode(image_paths) of a decoder built with (password, k); container is
\* what its ImageContainer reads from the files
decode(container, image_paths, password) ==
    LET st == ProcessImages([messages |-> <<>>, order |-> <<>>, completed |-> {}],
                            container, image_paths)
    IN  Reconstruct(st.messages, st.order, password)

\* ------------------------------------------------------------------------
\* io/directory_handler.py and ImageContainer.calculate_batch_capacity
\* ------------------------------------------------------------------------
\* get_png_images(directory): os.listdir raises TypeError on anything that is
\* not a path; a directory yields its PNG files sorted by name
get_png_images(directory) ==
    IF directory.kind # "directory" THEN [status |-> "TypeError", paths |-> <<>>]
    ELSE [status |-> "ok", paths |-> directory.paths]

RECURSIVE SumSizes(_)
SumSizes(used_segments) ==
    IF used_segments = <<>> THEN 0
    ELSE used_segments[1][2] + SumSizes(Tail(used_segments))

RECURSIVE SumOver(_, _)
SumOver(f, paths) ==
    IF paths = {} THEN 0
    ELSE LET p == CHOOSE q \in paths : TRUE IN f[p] + SumOver(f, paths \ {p})

\* the returned tuple (total_capacity, individual_capacities, space_info)
calculate_batch_capacity(container, image_paths) ==
    LET paths == {image_paths[i] : i \in DOMAIN image_paths}
        individual_capacities == [p \in paths |-> container[p].calculate_capacity]
        space_info == [p \in paths |->
            LET capacity == individual_capacities[p]
                bytes_used == SumSizes(container[p].find_used_segments)
            IN  <<bytes_used, capacity - bytes_used, capacity>>]
        total_capacity == SumOver([i \in DOMAIN image_paths |->
                                      individual_capacities[image_paths[i]]],
                                  DOMAIN image_paths)
    IN  <<total_capacity, individual_capacities, space_info>>

\* calculate_image_capacities(directory, bits_per_channel): the summary, of
\* which the byte counts are kept (the other entries are computed from them)
calculate_image_capacities(container, directory) ==
    LET found == get_png_images(directory)
    IN  IF found.status # "ok" THEN [status |-> found.status, value |-> <<>>]
        ELSE IF found.paths = <<>>
        THEN [status |-> "ValueError: no images", value |-> <<>>]
        ELSE LET space_info == calculate_batch_capacity(container, found.paths)[3]
             IN  [status |-> "ok",
                  value |-> [p \in {found.paths[i] : i \in DOMAIN found.paths} |->
                                [capacity_bytes  |-> space_info[p][3],
                                 used_bytes      |-> space_info[p][1],
                                 available_bytes |-> space_info[p][2]]]]

\* ------------------------------------------------------------------------
\* core/encoder.py: StegoEncoder.encode
\* ------------------------------------------------------------------------
\* lines 112-162: the write loop
RECURSIVE EncodeLoop(_, _, _, _, _, _, _, _)
EncodeLoop(imgs, container, image_paths, combined_message, message_hash, bytes_written, modified_images, k) ==
    LET bytes_remaining == Len(combined_message) - bytes_written
    IN  IF image_paths = <<>> \/ bytes_remaining <= 0
        THEN [status |-> "ok", images |-> imgs, value |-> modified_images]
        ELSE LET img_path == Head(image_paths)
                 capacity == container[img_path].calculate_capacity
                 bytes_to_write == Min(capacity, bytes_remaining)
             IN  IF bytes_to_write <= 0
                 THEN EncodeLoop(imgs, container, Tail(image_paths), combined_message,
                                 message_hash, bytes_written, modified_images, k)
                 ELSE LET has_next == bytes_written + bytes_to_write < Len(combined_message)
                          header == StegoHeader_create(Len(combined_message), bytes_written,
                                                       message_hash, has_next)
                          message_part == PySlice(combined_message, bytes_written,
                                                  bytes_written + bytes_to_write)
                          written == write_data(imgs[img_path].pixels, k, header \o message_part)
                      IN  IF written.status # "ok"
                          THEN [status |-> "IOError", images |-> imgs, value |-> <<>>]
                          ELSE EncodeLoop([imgs EXCEPT ![img_path].pixels = written.pixels],
                                          container, Tail(image_paths), combined_message,
                                          message_hash,
                                          bytes_written + bytes_to_write,
                                          Append(modified_images, img_path), k)

\* encode(message, directory) of an encoder built with (password, k), whose
\* ImageContainer reads container from the files imgs: the outcome, the
\* images afterwards and the returned list
encode(imgs, container, message, directory, password, k) ==
    LET failed(kind) == [status |-> kind, images |-> imgs, value |-> <<>>]
        listing == get_png_images(directory)
        image_paths == listing.paths
    IN  IF listing.status # "ok" THEN failed("TypeError")
        ELSE IF image_paths = <<>> THEN failed("ValueError: no images")
        \* line 62: self.cipher.password, self.cipher is None without a password
        ELSE IF password = NoPassword THEN failed("AttributeError")
        ELSE LET existing_message == decode(container, image_paths, password)
             IN  \* line 74: list + bytes
                 IF existing_message # <<>> THEN failed("TypeError")
                 ELSE LET combined_message == message
                          batch == calculate_batch_capacity(container, image_paths)
                      IN  \* line 79: the 3-tuple is unpacked into two names
                          IF Len(batch) # 2 THEN failed("ValueError: unpack")
                          ELSE IF Len(combined_message) > batch[1]
                          THEN failed("ValueError: capacity")
                          ELSE EncodeLoop(imgs, container, image_paths,
                                          encrypt(combined_message, password),
                                          create_message_hash(combined_message),
                                          0, <<>>, k)

\* src/stego_lib/__init__.py: hide_message hands its list of paths to encode
hide_message(imgs, container, message, image_paths, password, k) ==
    encode(imgs, container, message, [kind |-> "list", paths |-> image_paths], password, k)

\* ------------------------------------------------------------------------
\* State
\* ------------------------------------------------------------------------
VARIABLES
    images,            \* path -> [width, height, pixels]: the PNG files
    bits_per_channel,  \* the k every container of the run is built with
    pc,                \* "store": the host writes segments with ImageContainer
                       \* and ends with one encoder or decoder call or with
                       \* capacity reports;
                       \* "hide": the host only uses the encoder and decoder;
                       \* "craft": the host uses StegoHeader and ImageContainer
                       \* on bytes of its own, "crafted" once it has written
                       \* and "appended" once it has written a second time;
                       \* "report": the host got a capacity report;
                       \* "locks": threads use an ImageLockManager;
                       \* "done": the run is over
    last,              \* the last call: arguments and outcome
    written,           \* path -> the segments put there by write_data calls
    hidden,            \* the (message, password, paths) of the encode calls so far
    damaged,           \* the (path, raw byte offset) altered outside the program
    locks,             \* ImageLockManager._locks: absolute path -> lock object
    threads            \* thread -> its call on the lock manager and where it is

vars == <<images, bits_per_channel, pc, last, written, hidden, damaged, locks, threads>>

Paths == 1..NumImages

\* raw bytes of the images of the run: the first one takes two plain
\* segments or an encrypted one, the others a segment of at most 2 bytes
RawBytes(p) == IF p = 1 THEN 2 * (SIZE + 2) + 1 ELSE SIZE + 2

\* the narrowest one-row image with at least n raw bytes at k bits a channel
WidthFor(n, k) == (8 * n + 3 * k - 1) \div (3 * k)

\* the samples of an image that never went through write_data
FreshPixels(p, n) == Tuple([i \in 1..n |-> (97 * i + 41 * p) % 256])

FreshImage(p, k) ==
    LET w == WidthFor(RawBytes(p), k)
    IN  [width |-> w, height |-> 1, pixels |-> FreshPixels(p, w * 3)]

\* the images of a run on raw data: a 2 x 2 image, too small for a header,
\* a one-row image of SIZE + 2 raw bytes, and one-row images of 3 * SIZE + p
\* raw bytes, which take several segments
CraftImage(p, k) ==
    IF p = 1 THEN [width |-> 2, height |-> 2, pixels |-> FreshPixels(p, 2 * 2 * 3)]
    ELSE LET w == WidthFor(IF p = 2 THEN SIZE + p ELSE 3 * SIZE + p, k)
         IN  [width |-> w, height |-> 1, pixels |-> FreshPixels(p, w * 3)]

Passwords == {NoPassword, "a", "b"}

LongMessage == Tuple([i \in 1..(SIZE + 7) |-> 64 + i])

\* the messages handed to encode
Messages == {<<>>, <<65>>, LongMessage}

\* the byte stream of a message as encode lines 97-103 prepare it
Stream(message, password) ==
    IF password = NoPassword THEN message ELSE encrypt(message, password)

\* the segments a host hands to write_data: whole messages, the two parts of
\* a message, and an encrypted message
Fragments ==
    {[message |-> m, password |-> NoPassword, offset |-> 0, length |-> Len(m)] :
        m \in {<<65>>, <<66, 67>>}}
    \cup {[message |-> <<68, 69, 70>>, password |-> NoPassword, offset |-> o[1], length |-> o[2]] :
        o \in {<<0, 1>>, <<1, 2>>}}
    \cup {[message |-> <<65>>, password |-> "a", offset |-> 0, length |-> BLOCK]}

\* header + chunk, as encode lines 128-150 build them
SegmentBytes(f) ==
    LET stream == Stream(f.message, f.password)
    IN  StegoHeader_create(Len(stream), f.offset, create_message_hash(f.message),
                           f.offset + f.length < Len(stream))
        \o PySlice(stream, f.offset, f.offset + f.length)

\* what encode is given: a directory holding the first n images, or (from
\* hide_message) the list of all paths
Directories ==
    {[kind |-> "directory", paths |-> Tuple([i \in 1..n |-> i])] : n \in {1, NumImages}}
    \cup {[kind |-> "list", paths |-> Tuple([i \in 1..NumImages |-> i])]}

\* the lists handed to decode: the images in directory order and in the
\* opposite order, and a list with a path that cannot be opened and with
\* the first image a second time
DecodeLists ==
    {Tuple([i \in 1..NumImages |-> i]), Tuple([i \in 1..NumImages |-> NumImages + 1 - i]),
     <<NoFile>> \o Tuple([i \in 1..NumImages |-> i]) \o <<1>>}

NoCall == [op |-> "none", status |-> "ok", value |-> <<>>, message |-> <<>>,
           password |-> NoPassword, paths |-> <<>>, kind |-> "", modified |-> FALSE]

\* a segment whose chunk holds a header, followed by a header whose
\* current_offset lies so far behind its total_length that the scan goes
\* back to the header inside the chunk, which claims the rest of the image
BackwardStream ==
    LET message_hash == create_message_hash(<<65>>)
        inner == StegoHeader_create(258, 0, message_hash, FALSE) \o <<66>>
    IN  StegoHeader_create(Len(inner), 0, message_hash, FALSE) \o inner
            \o StegoHeader_create(0, SIZE + Len(inner), message_hash, FALSE)

\* max_bytes raw bytes that begin with a header whose current_offset lies so
\* far behind its total_length that the scan goes to offset -(SIZE + 1),
\* which a slice counts from the end of the raw bytes, where a second header
\* claims the rest
WrapStream(max_bytes) ==
    LET message_hash == create_message_hash(<<65>>)
    IN  StegoHeader_create(0, 2 * SIZE + 1, message_hash, FALSE)
            \o Tuple([i \in 1..(max_bytes - 2 * SIZE - 1) |-> 64 + i])
            \o StegoHeader_create(258, 0, message_hash, FALSE) \o <<0>>

\* what a host hands to write_data in a run on raw data: short byte strings
\* without a header, a header with a chunk of exactly the capacity of the
\* image, a segment behind one stray byte, headers whose current_offset
\* lies 1 byte and SIZE bytes behind their total_length, and the streams
\* that send the scan backwards
CraftData(img, k) ==
    LET message_hash == create_message_hash(<<65>>)
        capacity == calculate_capacity(img, k)
        max_bytes == (Len(img.pixels) * k) \div 8
    IN  (IF max_bytes > 2 * SIZE THEN {WrapStream(max_bytes)} ELSE {}) \cup
        {<<>>, <<255>>, <<165, 90, 60>>,
         StegoHeader_create(capacity, 0, message_hash, FALSE)
             \o Tuple([i \in 1..capacity |-> 64 + i]),
         <<0>> \o StegoHeader_create(1, 0, message_hash, FALSE) \o <<65>>,
         StegoHeader_create(0, 1, message_hash, FALSE),
         StegoHeader_create(0, SIZE, message_hash, FALSE),
         BackwardStream}

\* the lengths and offsets a host hands to StegoHeader.create
HeaderLengths == {0, 1, 258, 2147483647}

\* the byte strings a host hands to StegoHeader.parse: a header, a header cut
\* short or extended, with another magic or version, and the magic and
\* version followed by noise
ParseInputs ==
    LET valid == StegoHeader_create(258, 1, create_message_hash(<<65>>), TRUE)
    IN  {valid, <<>>, PySlice(valid, 0, SIZE - 1), valid \o <<0>>,
         [valid EXCEPT ![1] = 115], [valid EXCEPT ![4] = 0],
         [valid EXCEPT ![5] = 0], [valid EXCEPT ![5] = 2],
         [valid EXCEPT ![SIZE] = 7, ![SIZE - 1] = 9, ![SIZE - 2] = 255],
         MAGIC \o <<VERSION>> \o Tuple([i \in 1..(SIZE - 5) |-> 255]),
         Tuple([i \in 1..SIZE |-> 0])}

\* the threads of a run on the lock manager are all outside of it
IdleThread == [at |-> "idle", image_path |-> "", mode |-> "", abs_path |-> "", lock |-> 0]

Init ==
    /\ bits_per_channel \in 1..4
    /\ pc \in {"store", "hide", "craft"}
    /\ images = [p \in Paths |-> IF pc = "craft" THEN CraftImage(p, bits_per_channel)
                                 ELSE FreshImage(p, bits_per_channel)]
    /\ last = NoCall
    /\ written = [p \in Paths |-> <<>>]
    /\ hidden = <<>>
    /\ damaged = {}
    /\ locks = <<>>
    /\ threads = [t \in 1..NumThreads |-> IdleThread]

RECURSIVE TotalLen(_, _)
TotalLen(f, S) ==
    IF S = {} THEN 0
    ELSE LET p == CHOOSE q \in S : TRUE IN Len(f[p]) + TotalLen(f, S \ {p})

\* a host stores one segment: ImageContainer.write_data(path, path, data)
WriteSegment(p, f) ==
    /\ pc = "store"
    /\ TotalLen(written, Paths) < MaxWrites
    /\ \E r \in {write_data(images[p].pixels, bits_per_channel, SegmentBytes(f))} :
           /\ images' = [images EXCEPT ![p].pixels = r.pixels]
           /\ written' = IF r.status = "ok"
                         THEN [written EXCEPT ![p] = Append(@, f)]
                         ELSE written
    /\ UNCHANGED <<bits_per_channel, pc, last, hidden, damaged, locks, threads>>

\* StegoEncoder(password, k).encode(message, directory), and hide_message
\* when the argument is a list of paths; container is what the encoder's
\* ImageContainer reads from the files as they are
Encode ==
    /\ pc \in {"store", "hide"}
    /\ Len(hidden) < MaxEncodes
    /\ \E container \in {Container(images, bits_per_channel)} :
       \E message \in Messages, directory \in Directories, password \in {NoPassword, "a"} :
       \E r \in {IF directory.kind = "list"
                 THEN hide_message(images, container, message, directory.paths, password,
                                   bits_per_channel)
                 ELSE encode(images, container, message, directory, password,
                             bits_per_channel)} :
           /\ images' = r.images
           /\ last' = [NoCall EXCEPT !.op = "encode", !.status = r.status,
                                     !.value = r.value, !.message = message,
                                     !.password = password, !.paths = directory.paths,
                                     !.kind = directory.kind,
                                     !.modified = (r.images # images)]
           /\ hidden' = Append(hidden, [message |-> message, password |-> password,
                                     paths |-> directory.paths])
    /\ pc' = IF pc = "store" THEN "done" ELSE "hide"
    /\ UNCHANGED <<bits_per_channel, written, damaged, locks, threads>>

\* StegoDecoder(password, k).decode(image_paths).  The call returns once
\* the scan of every image it reads has come to its end.
Decode ==
    /\ pc \in {"store", "hide", "crafted"}
    /\ images' = images
    /\ \E container \in {Container(images, bits_per_channel)} :
       \E image_paths \in DecodeLists, password \in Passwords :
           /\ \A p \in DOMAIN container : Returns(container[p].find_used_segments)
           /\ last' = [NoCall EXCEPT !.op = "decode",
                                     !.value = decode(container, image_paths, password),
                                     !.password = password, !.paths = image_paths,
                                     !.modified = (images' # images)]
    /\ pc' = "done"
    /\ UNCHANGED <<bits_per_channel, written, hidden, damaged, locks, threads>>

\* v with bit j inverted
Toggle(v, j) == IF BitOf(v, j) = 1 THEN v - Pow2(j) ELSE v + Pow2(j)

\* the samples after every bit of raw byte pos was inverted
FlipByte(pixels, k, pos) ==
    Tuple([i \in 1..Len(pixels) |->
        LET hit(j) == j < k /\ ((i - 1) * k + j) \div 8 = pos
            t0 == IF hit(0) THEN Toggle(pixels[i], 0) ELSE pixels[i]
            t1 == IF hit(1) THEN Toggle(t0, 1) ELSE t0
            t2 == IF hit(2) THEN Toggle(t1, 2) ELSE t1
        IN  IF hit(3) THEN Toggle(t2, 3) ELSE t2])

\* the raw byte offset of the first payload byte of every segment of an image
PayloadOffsets(pixels, k) ==
    LET segs == find_used_segments(pixels, k)
    IN  {segs[n][1] + SIZE : n \in {m \in DOMAIN segs : segs[m][2] > SIZE}}

\* something outside the program inverts one payload byte of a segment
\* stored in image p
Damage(p) ==
    /\ pc = "store"
    /\ Cardinality(damaged) < MaxDamage
    /\ \E pos \in PayloadOffsets(images[p].pixels, bits_per_channel) :
           /\ <<p, pos>> \notin damaged
           /\ images' = [images EXCEPT ![p].pixels = FlipByte(@, bits_per_channel, pos)]
           /\ damaged' = damaged \cup {<<p, pos>>}
    /\ UNCHANGED <<bits_per_channel, pc, last, written, hidden, locks, threads>>

\* a host stores bytes of its own: ImageContainer.write_data(path, path, data)
\* on an image nothing was written to, and a second time on the same image;
\* last.value keeps the samples as they were before the call.  The call
\* returns once the scan of the image has come to its end.
WriteRaw(p) ==
    /\ pc \in {"craft", "crafted"}
    /\ pc = "crafted" => (last.op = "write" /\ last.paths = <<p>>)
    /\ Returns(find_used_segments(images[p].pixels, bits_per_channel))
    /\ \E data \in CraftData(images[p], bits_per_channel) :
       \E r \in {write_data(images[p].pixels, bits_per_channel, data)} :
           /\ images' = [images EXCEPT ![p].pixels = r.pixels]
           /\ last' = [NoCall EXCEPT !.op = "write", !.status = r.status,
                                     !.value = images[p].pixels, !.message = data,
                                     !.paths = <<p>>,
                                     !.modified = (r.pixels # images[p].pixels)]
    /\ pc' = IF pc = "craft" THEN "crafted" ELSE "appended"
    /\ UNCHANGED <<bits_per_channel, written, hidden, damaged, locks, threads>>

\* a host builds a header and parses it back: StegoHeader.create, then
\* StegoHeader.parse on the bytes it returned
HeaderRoundTrip ==
    /\ pc = "craft"
    /\ \E total_length \in HeaderLengths, current_offset \in HeaderLengths,
          has_next_part \in BOOLEAN :
       \E header \in {StegoHeader_create(total_length, current_offset,
                                         create_message_hash(<<65>>), has_next_part)} :
           last' = [NoCall EXCEPT !.op = "create", !.message = header,
                                  !.value = StegoHeader_parse(header),
                                  !.paths = <<total_length, current_offset>>,
                                  !.modified = has_next_part]
    /\ pc' = "done"
    /\ UNCHANGED <<images, bits_per_channel, written, hidden, damaged, locks, threads>>

\* a host parses bytes of its own: StegoHeader.parse(header_bytes)
ParseBytes ==
    /\ pc = "craft"
    /\ \E header_bytes \in ParseInputs :
           last' = [NoCall EXCEPT !.op = "parse", !.message = header_bytes,
                                  !.value = StegoHeader_parse(header_bytes)]
    /\ pc' = "done"
    /\ UNCHANGED <<images, bits_per_channel, written, hidden, damaged, locks, threads>>

\* a report that clears the low bits of the first sample of the first image
\* and saves the file
Report_saving ==
    /\ pc \in {"store", "crafted"}
    /\ images' = [images EXCEPT ![1].pixels[1] = BitAnd8(@, InverseMask(bits_per_channel))]
    /\ \E container \in {Container(images, bits_per_channel)} :
       \E directory \in Directories :
       \E r \in {calculate_image_capacities(container, directory)} :
           last' = [NoCall EXCEPT !.op = "report", !.status = r.status,
                                  !.value = r.value, !.paths = directory.paths,
                                  !.kind = directory.kind,
                                  !.modified = (images' # images)]
    /\ pc' = "report"
    /\ UNCHANGED <<bits_per_channel, written, hidden, damaged, locks, threads>>

\* calculate_image_capacities(directory, k).  The call returns once the scan
\* of every image of the directory has come to its end.
Report ==
    /\ pc \in {"store", "crafted"}
    /\ images' = images
    /\ \E container \in {Container(images, bits_per_channel)} :
       \E directory \in Directories :
           /\ directory.kind = "directory" =>
                  \A i \in DOMAIN directory.paths :
                      Returns(container[directory.paths[i]].find_used_segments)
           /\ \E r \in {calculate_image_capacities(container, directory)} :
                  last' = [NoCall EXCEPT !.op = "report", !.status = r.status,
                                         !.value = r.value, !.paths = directory.paths,
                                         !.kind = directory.kind,
                                         !.modified = (images' # images)]
    /\ pc' = "report"
    /\ UNCHANGED <<bits_per_channel, written, hidden, damaged, locks, threads>>

Next ==
    \/ \E p \in Paths, f \in Fragments : WriteSegment(p, f)
    \/ \E p \in Paths : Damage(p)
    \/ Encode
    \/ Decode
    \/ \E p \in Paths : WriteRaw(p)
    \/ HeaderRoundTrip
    \/ ParseBytes
    \/ Report

Spec == Init /\ [][Next]_vars

\* ------------------------------------------------------------------------
\* utils/lock_manager.py: ImageLockManager, and threads that each take one
\* lock from it, hold it and give it back
\* ------------------------------------------------------------------------
Threads == 1..NumThreads

\* the paths the threads pass
LockPaths == {"img.png", "./img.png", "other.png"}

\* os.path.abspath, the working directory being /w
abspath(image_path) ==
    IF image_path \in {"img.png", "./img.png"} THEN "/w/img.png" ELSE "/w/other.png"

\* a thread enters acquire_read_lock or acquire_write_lock and, in get_lock,
\* computes abs_path (line 26)
GetLock(t) ==
    /\ pc = "locks"
    /\ threads[t].at = "idle"
    /\ \E image_path \in LockPaths, mode \in {"read", "write"} :
           threads' = [threads EXCEPT ![t] = [at |-> "line 29", image_path |-> image_path,
                                              mode |-> mode,
                                              abs_path |-> abspath(image_path),
                                              lock |-> 0]]
    /\ UNCHANGED <<images, bits_per_channel, pc, last, written, hidden, damaged, locks>>

\* line 29: if abs_path not in self._locks
TestLock(t) ==
    /\ pc = "locks"
    /\ threads[t].at = "line 29"
    /\ threads' = [threads EXCEPT ![t].at = IF threads[t].abs_path \notin DOMAIN locks
                                            THEN "line 30" ELSE "line 32"]
    /\ UNCHANGED <<images, bits_per_channel, pc, last, written, hidden, damaged, locks>>

\* line 30: self._locks[abs_path] = rwlock.RWLockFair(); the new lock object
\* is named after the thread that made it
CreateLock(t) ==
    /\ pc = "locks"
    /\ threads[t].at = "line 30"
    /\ locks' = [a \in DOMAIN locks \cup {threads[t].abs_path} |->
                     IF a = threads[t].abs_path THEN t ELSE locks[a]]
    /\ threads' = [threads EXCEPT ![t].at = "line 32"]
    /\ UNCHANGED <<images, bits_per_channel, pc, last, written, hidden, damaged>>

\* line 32: return self._locks[abs_path], and gen_rlock() or gen_wlock() on it
ReturnLock(t) ==
    /\ pc = "locks"
    /\ threads[t].at = "line 32"
    /\ threads' = [threads EXCEPT ![t].at = "returned", ![t].lock = locks[threads[t].abs_path]]
    /\ UNCHANGED <<images, bits_per_channel, pc, last, written, hidden, damaged, locks>>

\* the threads that hold lock object l
Holders(l) == {u \in Threads : threads[u].at = "holding" /\ threads[u].lock = l}

\* the caller takes the lock it was given: a reader waits while a writer
\* holds that lock object, a writer while anyone holds it
AcquireLock(t) ==
    /\ pc = "locks"
    /\ threads[t].at = "returned"
    /\ \A u \in Holders(threads[t].lock) :
           threads[t].mode = "read" /\ threads[u].mode = "read"
    /\ threads' = [threads EXCEPT ![t].at = "holding"]
    /\ UNCHANGED <<images, bits_per_channel, pc, last, written, hidden, damaged, locks>>

ReleaseLock(t) ==
    /\ pc = "locks"
    /\ threads[t].at = "holding"
    /\ threads' = [threads EXCEPT ![t].at = "released"]
    /\ UNCHANGED <<images, bits_per_channel, pc, last, written, hidden, damaged, locks>>

LockInit ==
    /\ bits_per_channel = 2
    /\ pc = "locks"
    /\ images = [p \in Paths |-> FreshImage(p, bits_per_channel)]
    /\ last = NoCall
    /\ written = [p \in Paths |-> <<>>]
    /\ hidden = <<>>
    /\ damaged = {}
    /\ locks = <<>>
    /\ threads = [t \in Threads |-> IdleThread]

LockNext ==
    \/ \E t \in Threads : GetLock(t)
    \/ \E t \in Threads : TestLock(t)
    \/ \E t \in Threads : CreateLock(t)
    \/ \E t \in Threads : ReturnLock(t)
    \/ \E t \in Threads : AcquireLock(t)
    \/ \E t \in Threads : ReleaseLock(t)

LockSpec == LockInit /\ [][LockNext]_vars

\* ------------------------------------------------------------------------
\* What the images of a state are known to hold
\* ------------------------------------------------------------------------
Range(seq) == {seq[i] : i \in DOMAIN seq}

\* no write_data call and no damage so far: every image is as it was made
NothingStored == damaged = {} /\ \A p \in Paths : written[p] = <<>>

RECURSIVE SumCapacity(_, _)
SumCapacity(image_paths, k) ==
    IF image_paths = <<>> THEN 0
    ELSE calculate_capacity(images[Head(image_paths)], k)
         + SumCapacity(Tail(image_paths), k)

\* the first segment written to each listed image that nothing damaged
Stored(image_paths) ==
    {written[p][1] : p \in {q \in Range(image_paths) \cap Paths :
                               written[q] # <<>> /\ \A d \in damaged : d[1] # q}}

\* the segments of S hold every byte of the stream of (message, password)
Covered(message, password, S) ==
    \A o \in 0..(Len(Stream(message, password)) - 1) :
        \E f \in S : /\ f.message = message /\ f.password = password
                     /\ f.offset <= o /\ o < f.offset + f.length

\* the messages that are wholly and intactly in the listed images, for a
\* decoder built with the given password
CompleteMessages(image_paths, password) ==
    {f.message : f \in {g \in Stored(image_paths) :
                           g.password = password
                           /\ Covered(g.message, g.password, Stored(image_paths))}}

\* the messages of which the listed images hold a part only
PartialMessages(image_paths) ==
    {f.message : f \in {g \in Stored(image_paths) :
                           ~Covered(g.message, g.password, Stored(image_paths))}}

\* the messages whose first-written segment had a payload byte inverted
DamagedMessages ==
    {written[d[1]][1].message :
        d \in {e \in damaged : /\ written[e[1]] # <<>>
                               /\ e[2] < SIZE + written[e[1]][1].length}}

\* ------------------------------------------------------------------------
\* Claims
\* ------------------------------------------------------------------------

\* C1: hiding a message m that fits into one fresh image with encode and then
\* decoding with the same password returns exactly the list [m].  Stated of
\* the decode that follows a single encode on untouched images.
C1_RoundTrip ==
    (/\ last.op = "decode"
     /\ Len(hidden) = 1
     /\ NothingStored
     /\ last.password = hidden[1].password
     /\ 1 \in Range(last.paths)
     /\ Len(Stream(hidden[1].message, hidden[1].password))
            <= calculate_capacity(images[1], bits_per_channel))
    => last.value = <<hidden[1].message>>

\* C2: when the encoded message is longer than the total capacity of the
\* images of the directory, encode fails with the capacity error and leaves
\* every image unmodified.
C2_CapacityError ==
    (/\ last.op = "encode"
     /\ last.kind = "directory"
     /\ NothingStored
     /\ Len(Stream(last.message, last.password)) > SumCapacity(last.paths, bits_per_channel))
    => (last.status = "ValueError: capacity" /\ ~last.modified)

\* C3: when the encoded message is not longer than the total capacity of the
\* images of the directory, encode returns without error.
C3_FitsSucceeds ==
    (/\ last.op = "encode"
     /\ last.kind = "directory"
     /\ NothingStored
     /\ Len(Stream(last.message, last.password)) <= SumCapacity(last.paths, bits_per_channel))
    => last.status = "ok"

\* C4: a message longer than the capacity of any single image and shorter
\* than the capacity of all the images together, hidden with encode, is
\* returned by decode for every order of the images in the list.
C4_Spanning ==
    (/\ last.op = "decode"
     /\ Len(hidden) = 1
     /\ NothingStored
     /\ last.password = hidden[1].password
     /\ Range(hidden[1].paths) = Paths
     /\ Len(last.paths) = NumImages /\ Range(last.paths) = Paths
     /\ \A p \in Paths : Len(Stream(hidden[1].message, hidden[1].password))
                            > calculate_capacity(images[p], bits_per_channel)
     /\ Len(Stream(hidden[1].message, hidden[1].password))
            < SumCapacity(last.paths, bits_per_channel))
    => last.value = <<hidden[1].message>>

\* C5: after two encode calls with different messages that both fit into the
\* free space, decode returns the two messages as two separate entries.
C5_Coexist ==
    (/\ last.op = "decode"
     /\ Len(hidden) = 2
     /\ NothingStored
     /\ hidden[1].password = last.password /\ hidden[2].password = last.password
     /\ hidden[1].message # hidden[2].message
     /\ hidden[1].paths = hidden[2].paths
     /\ Range(last.paths) \cap Paths = Paths
     /\ Len(Stream(hidden[1].message, hidden[1].password))
          + Len(Stream(hidden[2].message, hidden[2].password)) + SIZE
            <= calculate_capacity(images[1], bits_per_channel))
    => (/\ Len(last.value) = 2
        /\ Range(last.value) = {hidden[1].message, hidden[2].message})

\* C6: when the images hold only some of the segments of one message (its
\* writing was interrupted) next to messages that were written completely,
\* decode leaves the partial message out and still returns every complete one.
C6_Interrupted ==
    (/\ last.op = "decode"
     /\ damaged = {}
     /\ Range(last.paths) \cap Paths = Paths
     /\ PartialMessages(last.paths) # {}
     /\ CompleteMessages(last.paths, last.password) # {})
    => (/\ CompleteMessages(last.paths, last.password) \subseteq Range(last.value)
        /\ PartialMessages(last.paths) \cap Range(last.value) = {})

\* C7: every segment header carries a message_id, the same for all the
\* segments of one message, by which the decoder groups the segments.
C7_MessageId ==
    \A p \in Paths : \A i \in DOMAIN written[p] :
        HasAttr(StegoHeader_parse(PySlice(SegmentBytes(written[p][i]), 0, SIZE)), "message_id")

\* C8: when one payload byte of a stored segment was changed, decode leaves
\* that message out and still returns the other, undamaged messages.
C8_Corruption ==
    (/\ last.op = "decode"
     /\ damaged # {}
     /\ Range(last.paths) \cap Paths = Paths
     /\ CompleteMessages(last.paths, last.password) # {})
    => (/\ (DamagedMessages \ CompleteMessages(last.paths, last.password))
               \cap Range(last.value) = {}
        /\ CompleteMessages(last.paths, last.password) \subseteq Range(last.value))

\* C9: every message decode returns verifies against the truncated hash of a
\* segment header stored in the listed images and has the length that header
\* states after decryption; nothing else (a failed decryption, a hash
\* mismatch, a wrong password) is ever in the result.
C9_NoGarbage ==
    last.op = "decode" =>
        \A n \in DOMAIN last.value :
            \E p \in Range(last.paths) \cap Paths :
                \E seg \in Range(read_all_messages(images[p].pixels, bits_per_channel)) :
                    LET header == StegoHeader_parse(PySlice(seg, 0, SIZE))
                    IN  /\ verify_message_hash(last.value[n], header.message_hash)
                        /\ Len(Stream(last.value[n], last.password)) = header.total_length

\* C9 witness: decode ran with password "b" over an image that holds a segment
\* encrypted with password "a", and returned nothing.
C9_Witness ==
    /\ last.op = "decode"
    /\ last.password = "b"
    /\ \E p \in Range(last.paths) \cap Paths :
           \E f \in Range(written[p]) : f.password = "a"
    /\ last.value = <<>>

\* C10: an unreadable image, an incomplete message, a failed decryption or a
\* hash mismatch never costs the other messages: every complete, valid
\* message of the listed images is returned.
C10_BatchSurvives ==
    (/\ last.op = "decode"
     /\ \/ NoFile \in Range(last.paths)
        \/ damaged # {}
        \/ PartialMessages(last.paths) # {}
        \/ \E f \in Stored(last.paths) : f.password # last.password)
    => CompleteMessages(last.paths, last.password) \subseteq Range(last.value)

C12_HeaderLayout ==
    last.op = "create" =>
        /\ Len(last.message) = 36
        /\ PySlice(last.message, 0, 4) = MAGIC
        /\ last.message[5] = 1
        /\ PySlice(last.message, 5, 13) = Pack64(last.paths[1])
        /\ PySlice(last.message, 13, 21) = Pack64(last.paths[2])
        /\ PySlice(last.message, 21, 29) = PySlice(create_message_hash(<<65>>), 0, 8)
        /\ PySlice(last.message, 33, 36) = <<0, 0, 0>>
        /\ ~IsParseError(last.value)
        /\ HasAttr(last.value, "message_id")
        /\ last.value.total_length = last.paths[1]
        /\ last.value.current_offset = last.paths[2]
        /\ last.value.message_hash = PySlice(create_message_hash(<<65>>), 0, 8)

\* C13: parse returns a parse error exactly when the input is not SIZE bytes
\* long, does not start with the magic, or has a version byte other than 1;
\* for every other input it returns a header with its four fields.
C13_ParseErrors ==
    last.op = "parse" =>
        /\ IsParseError(last.value) <=>
               \/ Len(last.message) # SIZE
               \/ PySlice(last.message, 0, 4) # MAGIC
               \/ last.message[5] # 1
        /\ ~IsParseError(last.value) =>
               DOMAIN last.value =
                   {"total_length", "current_offset", "message_hash", "has_next_part"}
        /\ IsParseError(last.value) => last.value = ParseError

\* C13 witness: parse was given the magic and the version followed by noise,
\* and returned a header
C13_Witness ==
    /\ last.op = "parse"
    /\ ~IsParseError(last.value)
    /\ last.message[SIZE] = 255

\* the raw byte limit of write_data (line 216)
MaxBytes(pixels, k) == (Len(pixels) * k) \div 8

\* C14: for every k, write_data takes every byte string that fits into an
\* image without a segment, and extract_all_bits then returns a byte stream
\* that starts with exactly those bytes.  Stated of the raw data a host
\* writes and of the first segment written to an image nothing else touched.
C14_CodecInverse ==
    /\ (pc = "crafted" /\ last.op = "write") =>
           /\ last.status = "ok" <=>
                  Len(last.message) <= MaxBytes(last.value, bits_per_channel)
           /\ last.status = "ok" =>
                  PySlice(extract_all_bits(images[last.paths[1]].pixels, bits_per_channel),
                          0, Len(last.message)) = last.message
    /\ pc = "store" =>
           \A p \in Paths :
               (Len(written[p]) = 1 /\ \A d \in damaged : d[1] # p) =>
                   PySlice(extract_all_bits(images[p].pixels, bits_per_channel),
                           0, SIZE + written[p][1].length) = SegmentBytes(written[p][1])

\* C14 witness: at 3 bits a channel, where bytes and bit groups do not
\* align, a host wrote more than a header into an image and it was taken
C14_Witness ==
    /\ pc = "crafted"
    /\ last.op = "write"
    /\ last.status = "ok"
    /\ bits_per_channel = 3
    /\ Len(last.message) > SIZE

\* the samples write_data needs for n bytes at k bits a channel
SamplesFor(n, k) == (8 * n + k - 1) \div k

\* C15: write_data changes at most the low k bits of a sample, and leaves the
\* samples behind the ones that hold the bit stream of the data as they were.
\* Stated of the one write of a host's raw data, against the samples before
\* it; of the images segments are stored in one behind the other, the first
\* part is stated against the image as it was made.
C15_LowBitsOnly ==
    /\ (pc = "crafted" /\ last.op = "write") =>
           LET after == images[last.paths[1]].pixels
               needed == IF last.status = "ok"
                         THEN SamplesFor(Len(last.message), bits_per_channel) ELSE 0
           IN  /\ Len(after) = Len(last.value)
               /\ \A i \in DOMAIN after :
                      /\ after[i] \div Pow2(bits_per_channel)
                             = last.value[i] \div Pow2(bits_per_channel)
                      /\ i > needed => after[i] = last.value[i]
    /\ pc = "store" =>
           \A p \in Paths :
               LET fresh == FreshImage(p, bits_per_channel).pixels
               IN  /\ Len(images[p].pixels) = Len(fresh)
                   /\ \A i \in DOMAIN fresh :
                          images[p].pixels[i] \div Pow2(bits_per_channel)
                              = fresh[i] \div Pow2(bits_per_channel)

\* C15 witness: a second segment was stored behind a first one in one image
C15_Witness ==
    /\ pc = "store"
    /\ \E p \in Paths :
           /\ Len(written[p]) = 2
           /\ images[p].pixels # FreshImage(p, bits_per_channel).pixels

\* C16: the scan of find_used_segments moves its offset forward at every
\* iteration, whatever header it finds, and so comes to its end.
C16_ScanAdvances ==
    pc = "crafted" =>
        \A p \in Paths :
            Advances(find_used_segments(images[p].pixels, bits_per_channel))

\* C17 as stated: calculate_capacity is max(0, floor(width*height*3*k/8) -
\* SIZE), and in every image without a segment write_data takes a header
\* with a chunk of at most that many bytes.
C17_AlwaysFits ==
    /\ pc \in {"craft", "crafted"} =>
           \A p \in Paths :
               calculate_capacity(images[p], bits_per_channel)
                   = Max(0, MaxBytes(images[p].pixels, bits_per_channel) - SIZE)
    /\ (/\ pc = "crafted"
        /\ last.op = "write"
        /\ Len(last.message) >= SIZE
        /\ Len(last.message) - SIZE
               <= calculate_capacity(images[last.paths[1]], bits_per_channel))
       => last.status = "ok"

\* C17 amended: calculate_capacity is max(0, floor(width*height*3*k/8) -
\* SIZE), and in every image without a segment whose raw byte limit is at
\* least SIZE, write_data takes a header with a chunk of at most that many
\* bytes.
C17_FitsWhenHeaderFits ==
    /\ pc \in {"craft", "crafted"} =>
           \A p \in Paths :
               calculate_capacity(images[p], bits_per_channel)
                   = Max(0, MaxBytes(images[p].pixels, bits_per_channel) - SIZE)
    /\ (/\ pc = "crafted"
        /\ last.op = "write"
        /\ MaxBytes(last.value, bits_per_channel) >= SIZE
        /\ Len(last.message) >= SIZE
        /\ Len(last.message) - SIZE
               <= calculate_capacity(images[last.paths[1]], bits_per_channel))
       => last.status = "ok"

\* C17 witness: a header with a chunk of exactly the capacity of the image,
\* which is not 0, was written
C17_Witness ==
    /\ pc = "crafted"
    /\ last.op = "write"
    /\ last.status = "ok"
    /\ calculate_capacity(images[last.paths[1]], bits_per_channel) > 0
    /\ Len(last.message)
           = SIZE + calculate_capacity(images[last.paths[1]], bits_per_channel)

\* C18: the capacity report gives used_bytes = 0 and available_bytes =
\* capacity_bytes for every image whose raw bytes do not start with a header
\* that parses, whatever follows.
C18_NoHeaderAtZero ==
    (last.op = "report" /\ last.status = "ok") =>
        \A p \in DOMAIN last.value :
            IsParseError(StegoHeader_parse(
                PySlice(extract_all_bits(images[p].pixels, bits_per_channel), 0, SIZE)))
            => /\ last.value[p].used_bytes = 0
               /\ last.value[p].available_bytes = last.value[p].capacity_bytes

\* the threads that were handed a lock for the absolute path a
Handed(a) ==
    {t \in Threads : threads[t].abs_path = a
                     /\ threads[t].at \in {"returned", "holding", "released"}}

\* C19: the threads that ask for paths with the same absolute path are all
\* handed the same lock object, and no writer holds the lock of an image
\* while another thread holds it.
C19_Exclusion ==
    \A t \in Threads, u \in Threads :
        (t # u /\ threads[t].abs_path = threads[u].abs_path) =>
            /\ {t, u} \subseteq Handed(threads[t].abs_path)
                   => threads[t].lock = threads[u].lock
            /\ (threads[t].at = "holding" /\ threads[u].at = "holding")
                   => (threads[t].mode = "read" /\ threads[u].mode = "read")

\* the images of the list hold, one segment each, the consecutive chunks of
\* the stream from the given offset on, under headers that state the length
\* of the stream and the offset of the chunk
RECURSIVE Described(_, _, _)
Described(image_paths, stream, offset) ==
    IF image_paths = <<>> \/ offset >= Len(stream) THEN TRUE
    ELSE LET p == Head(image_paths)
             bytes_to_write == Min(calculate_capacity(images[p], bits_per_channel),
                                   Len(stream) - offset)
             segments == read_all_messages(images[p].pixels, bits_per_channel)
         IN  IF bytes_to_write <= 0 THEN Described(Tail(image_paths), stream, offset)
             ELSE /\ Len(segments) = 1
                  /\ LET header == StegoHeader_parse(PySlice(segments[1], 0, SIZE))
                     IN  /\ header.total_length = Len(stream)
                         /\ header.current_offset = offset
                  /\ PySlice(segments[1], SIZE, Len(segments[1]))
                         = PySlice(stream, offset, offset + bytes_to_write)
                  /\ Described(Tail(image_paths), stream, offset + bytes_to_write)

RECURSIVE Filled(_, _)
Filled(image_paths, bytes_remaining) ==
    IF image_paths = <<>> THEN bytes_remaining = 0
    ELSE LET p == Head(image_paths)
             bytes_to_write == Min(calculate_capacity(images[p], bits_per_channel),
                                   bytes_remaining)
         IN  IF bytes_to_write <= 0
             THEN /\ images[p] = FreshImage(p, bits_per_channel)
                  /\ Filled(Tail(image_paths), bytes_remaining)
             ELSE /\ find_used_segments(images[p].pixels, bits_per_channel)
                         = << <<0, SIZE + bytes_to_write>> >>
                  /\ Filled(Tail(image_paths), bytes_remaining - bytes_to_write)

\* C21: encode fills the images in list order: after an encode call for a
\* message that fits into the fresh images of the directory, every image
\* holds min(its capacity, the bytes then remaining) bytes of the stream,
\* images of capacity 0 are skipped, and the images behind the one that took
\* the last byte are untouched.
C21_SequentialFill ==
    (/\ last.op = "encode"
     /\ last.kind = "directory"
     /\ NothingStored
     /\ Len(hidden) = 1
     /\ last.message # <<>>
     /\ Len(Stream(last.message, last.password))
            <= SumCapacity(last.paths, bits_per_channel))
    => Filled(last.paths, Len(Stream(last.message, last.password)))

\* no header parses at an offset of a..b-1 that leaves room for one
NoHeader(raw_data, a, b) ==
    \A q \in a..(b - 1) :
        q + SIZE <= Len(raw_data) =>
            IsParseError(StegoHeader_parse(PySlice(raw_data, q, q + SIZE)))

\* used_segments is what a scan of raw_data by single bytes gives: every
\* entry is at an offset where a header parses and has the size that header
\* and the bytes behind it give, the next entry is at the first offset at or
\* behind its end where a header parses, the first one at the first such
\* offset of the stream, and behind the last one no header parses
Resynchronized(raw_data, used_segments) ==
    LET n == Len(used_segments)
        end(i) == used_segments[i][1] + used_segments[i][2]
    IN  /\ \A i \in 1..n :
               \E header \in {StegoHeader_parse(PySlice(raw_data, used_segments[i][1],
                                                        used_segments[i][1] + SIZE))} :
                   /\ ~IsParseError(header)
                   /\ used_segments[i][2]
                          = SIZE + Min(Len(raw_data) - used_segments[i][1] - SIZE,
                                       header.total_length - header.current_offset)
        /\ n > 0 => NoHeader(raw_data, 0, used_segments[1][1])
        /\ \A i \in 1..(n - 1) :
               /\ end(i) <= used_segments[i + 1][1]
               /\ NoHeader(raw_data, end(i), used_segments[i + 1][1])
        /\ n = 0 => NoHeader(raw_data, 0, Len(raw_data))
        /\ (n > 0 /\ Returns(used_segments)) => NoHeader(raw_data, end(n), Len(raw_data))

\* C22: the scan of find_used_segments resynchronizes byte by byte: where no
\* header parses it goes on 1 byte further, where one parses it records
\* (offset, SIZE + min(raw bytes behind the header, total_length -
\* current_offset)) and goes on behind that many bytes; a segment behind a
\* stray byte is found at its offset.  Stated of every image after a host
\* wrote raw data of its own.
C22_ByteResync ==
    pc \in {"crafted", "appended"} =>
        /\ \A p \in Paths :
               \E raw_data \in {extract_all_bits(images[p].pixels, bits_per_channel)} :
                   Len(raw_data) >= SIZE =>
                       Resynchronized(raw_data, ScanSegments(raw_data, 0))
        /\ (/\ pc = "crafted"
            /\ last.status = "ok"
            /\ Len(last.message) = SIZE + 2
            /\ last.message[1] = 0)
           => find_used_segments(images[last.paths[1]].pixels, bits_per_channel)
                  = << <<1, SIZE + 1>> >>

\* C22 witness: a host wrote a stray byte and a segment behind it, and the
\* scan has the segment at offset 1
C22_Witness ==
    /\ pc = "crafted"
    /\ last.status = "ok"
    /\ Len(last.message) = SIZE + 2
    /\ last.message[1] = 0
    /\ \E p \in Paths :
           find_used_segments(images[p].pixels, bits_per_channel) = << <<1, SIZE + 1>> >>

\* C23: write_data does not overwrite what an image holds: for every k, the
\* raw bytes 0 .. next_free_byte-1 (the segments the scan found before the
\* call, headers and chunks) extract to the same values after the call.
\* Stated of a host's writes of raw data, against the samples before the
\* call, and of the first segment of an image that took further segments.
C23_NoOverwrite ==
    /\ (pc \in {"crafted", "appended"} /\ last.op = "write") =>
           \E next_free_byte \in
                  {NextFreeByte(find_used_segments(last.value, bits_per_channel))} :
               PySlice(extract_all_bits(images[last.paths[1]].pixels, bits_per_channel),
                       0, next_free_byte)
                   = PySlice(extract_all_bits(last.value, bits_per_channel),
                             0, next_free_byte)
    /\ pc = "store" =>
           \A p \in Paths :
               (Len(written[p]) >= 2 /\ \A d \in damaged : d[1] # p) =>
                   PySlice(extract_all_bits(images[p].pixels, bits_per_channel),
                           0, SIZE + written[p][1].length) = SegmentBytes(written[p][1])

\* C23 witness: at 3 bits a channel a host wrote a second time into an image
\* whose segments end at a byte that does not start at a sample, and the
\* samples changed
C23_Witness ==
    /\ pc = "appended"
    /\ last.op = "write"
    /\ last.status = "ok"
    /\ last.modified
    /\ bits_per_channel = 3
    /\ (8 * NextFreeByte(find_used_segments(last.value, bits_per_channel))) % 3 # 0

C25_AppendReadable ==
    (pc = "appended" /\ last.op = "write" /\ last.status = "ok") =>
        \E next_free_byte \in
               {NextFreeByte(find_used_segments(last.value, bits_per_channel))} :
            /\ PySlice(extract_all_bits(images[last.paths[1]].pixels, bits_per_channel),
                       next_free_byte, next_free_byte + Len(last.message))
                   = last.message
            /\ ~IsParseError(StegoHeader_parse(PySlice(last.message, 0, SIZE))) =>
                   \E seg \in Range(find_used_segments(images[last.paths[1]].pixels,
                                                       bits_per_channel)) :
                       seg[1] = next_free_byte

\* C26: decode takes a message as complete exactly when the fragments it
\* read cover every byte of it: with an image named twice in the list, no
\* message of which a byte is missing is returned and no message that is
\* wholly there is left out.  Stated of images that hold at most one
\* segment each.
C26_Coverage ==
    (/\ last.op = "decode"
     /\ damaged = {}
     /\ Len(last.paths) > Cardinality(Range(last.paths))
     /\ \A p \in Paths : Len(written[p]) <= 1)
    => /\ Range(last.value) \subseteq CompleteMessages(last.paths, last.password)
       /\ CompleteMessages(last.paths, last.password) \subseteq Range(last.value)

\* the entries are in strictly increasing offset order, do not overlap, are
\* each at least SIZE bytes long and end within the max_bytes raw bytes
WellFormed(used_segments, max_bytes) ==
    /\ \A n \in DOMAIN used_segments :
           /\ used_segments[n][1] >= 0
           /\ used_segments[n][2] >= SIZE
           /\ used_segments[n][1] + used_segments[n][2] <= max_bytes
    /\ \A n \in 1..(Len(used_segments) - 1) :
           /\ used_segments[n][1] < used_segments[n + 1][1]
           /\ used_segments[n][1] + used_segments[n][2] <= used_segments[n + 1][1]

\* C27: for every raw byte stream the list find_used_segments returns is in
\* strictly increasing offset order, without overlap, with every segment at
\* least SIZE bytes long and within the raw bytes, also when a header has a
\* current_offset above its total_length.  Stated of every image after a
\* host wrote raw data of its own.
C27_WellFormedScan ==
    pc \in {"crafted", "appended"} =>
        \A p \in Paths :
            WellFormed(find_used_segments(images[p].pixels, bits_per_channel),
                       MaxBytes(images[p].pixels, bits_per_channel))

\* C28: the capacity report is consistent: for every image 0 <= used_bytes
\* <= capacity_bytes and available_bytes = capacity_bytes - used_bytes >= 0,
\* also for an image one segment fills, and the total capacity of the batch
\* is the sum of the capacities of the images.
C28_Accounting ==
    (last.op = "report" /\ last.status = "ok") =>
        /\ \A p \in DOMAIN last.value :
               /\ 0 <= last.value[p].used_bytes
               /\ last.value[p].used_bytes <= last.value[p].capacity_bytes
               /\ last.value[p].available_bytes
                      = last.value[p].capacity_bytes - last.value[p].used_bytes
               /\ last.value[p].available_bytes >= 0
        /\ \E container \in {Container(SubSeq(images, 1, Len(last.paths)),
                                       bits_per_channel)} :
               calculate_batch_capacity(container, last.paths)[1]
                   = SumOver([p \in DOMAIN last.value |-> last.value[p].capacity_bytes],
                             DOMAIN last.value)

C30_SameSegments ==
    pc \in {"crafted", "appended"} =>
        \A p \in Paths :
            \E used_segments \in {find_used_segments(images[p].pixels, bits_per_channel)} :
            \E messages \in {read_all_messages(images[p].pixels, bits_per_channel)} :
                Returns(used_segments) =>
                    /\ Len(messages) = Len(used_segments)
                    /\ \A n \in DOMAIN used_segments :
                           /\ Len(messages[n]) = used_segments[n][2]
                           /\ used_segments[n][1] >= 0 =>
                                  messages[n] =
                                      PySlice(extract_all_bits(images[p].pixels,
                                                               bits_per_channel),
                                              used_segments[n][1],
                                              used_segments[n][1] + used_segments[n][2])
                    /\ read_data(images[p].pixels, bits_per_channel)
                           = IF messages = <<>> THEN None
                             ELSE [found |-> TRUE, data |-> messages[1]]

====
